---------------------------- MODULE Spec2Model ----------------------------
(***************************************************************************)
(* Model of src/chart.js, the collapsible organisation chart.              *)
(*                                                                         *)
(* The file holds unresolved merge regions; the model follows the HEAD     *)
(* side of every region (the side that defines calculateReports,           *)
(* expandAll, collapseAll, collapseToLayer2 and the search functions).     *)
(*                                                                         *)
(* Encoding of JavaScript values:                                          *)
(*   - a string is a sequence of one-character strings, "" is << >>;       *)
(*   - undefined and null are the one-element sequences UNDEF and NULL;    *)
(*   - a node is the index of its record in cleanData, null is NoNode;     *)
(*   - a children array is a sequence of nodes; d3.stratify only ever      *)
(*     creates a children array by pushing a first child, so arrays are    *)
(*     never empty and null/undefined containers are written << >>.        *)
(***************************************************************************)
EXTENDS Integers, Sequences, FiniteSets

VARIABLES
    orgData,          \* the payload d3.json resolves with
    status,           \* "loading", "ready", "fetchError", "emptyData", "hierarchyError"
    root,             \* root node, NoNode while there is none
    parent,           \* node.parent
    children,         \* node.children  (visible container)
    _children,        \* node._children (hidden container)
    directReports,    \* node.directReports
    totalDescendants, \* node.totalDescendants
    dom,              \* nodes that own a g.node element (click targets)
    elements,         \* the g.node elements in document order: datum d, exiting or not
    svg,              \* size of the svg element and shift of the g element
    x, y,             \* node.x, node.y: a node is in the domain once it has them
    x0, y0,           \* node.x0, node.y0
    updates,          \* number of update() calls made by the last handler
    timers,           \* the nodes of the pending centring timers, oldest first
    last              \* the last handler that ran, and what it acted on

vars == <<orgData, status, root, parent, children, _children,
          directReports, totalDescendants, dom, elements, svg,
          x, y, x0, y0, updates, timers, last>>

-----------------------------------------------------------------------------
(* JavaScript values *)

UNDEF == <<"undefined">>
NULL == <<"null">>
NoNode == 0

LowerCase == <<"a","b","c","d","e","f","g","h","i","j","k","l","m",
               "n","o","p","q","r","s","t","u","v","w","x","y","z">>
UpperCase == <<"A","B","C","D","E","F","G","H","I","J","K","L","M",
               "N","O","P","Q","R","S","T","U","V","W","X","Y","Z">>

IsUpper(c) == \E k \in 1..Len(UpperCase) : UpperCase[k] = c

\* position of a letter in the alphabet, whatever its case
Rank(c) == CHOOSE k \in 1..Len(LowerCase) : LowerCase[k] = c \/ UpperCase[k] = c

\* String.prototype.toLowerCase
toLowerCase(s) == [i \in 1..Len(s) |-> IF IsUpper(s[i]) THEN LowerCase[Rank(s[i])] ELSE s[i]]

\* String.prototype.includes
includes(s, q) == \E i \in 0..(Len(s) - Len(q)) : SubSeq(s, i + 1, i + Len(q)) = q

\* d.name || ""
orEmpty(v) == IF v = UNDEF \/ v = NULL THEN << >> ELSE v

\* String.prototype.localeCompare on letters: letters compare by alphabet
\* position first; strings that differ only in case order lower case first.
RECURSIVE primaryCompare(_, _, _)
primaryCompare(a, b, i) ==
    IF i > Len(a) /\ i > Len(b) THEN 0
    ELSE IF i > Len(a) THEN -1
    ELSE IF i > Len(b) THEN 1
    ELSE IF Rank(a[i]) < Rank(b[i]) THEN -1
    ELSE IF Rank(a[i]) > Rank(b[i]) THEN 1
    ELSE primaryCompare(a, b, i + 1)

RECURSIVE caseCompare(_, _, _)
caseCompare(a, b, i) ==
    IF i > Len(a) THEN 0
    ELSE IF a[i] = b[i] THEN caseCompare(a, b, i + 1)
    ELSE IF IsUpper(b[i]) THEN -1 ELSE 1

localeCompare(a, b) ==
    LET p == primaryCompare(a, b, 1)
    IN  IF p # 0 THEN p ELSE caseCompare(a, b, 1)


-----------------------------------------------------------------------------
(* Hierarchy construction: cleanData, d3.stratify, node.sort *)

\* mutant of keepRecord: the parentid must be truthy, so "" and null are dropped
keepRecordTruthyParent(d) ==
    d.id # << >> /\ d.id # UNDEF /\ d.id # NULL
    /\ d.parentid # UNDEF /\ d.parentid # NULL /\ d.parentid # << >>

\* mutant of keepRecord: only the id is tested
keepRecordIdOnly(d) == d.id # << >> /\ d.id # UNDEF /\ d.id # NULL

\* orgData.filter(d => d.id && d.parentid !== undefined)
keepRecord(d) == d.id # << >> /\ d.id # UNDEF /\ d.id # NULL /\ d.parentid # UNDEF

cleanData(data) == SelectSeq(data, keepRecord)

\* stratify's test of a parentId: != null and not the empty string
hasParentKey(d) == d.parentid # NULL /\ d.parentid # UNDEF /\ d.parentid # << >>

\* stratify's nodeByKey map, as the set of nodes that carry the key: empty
\* when the key is missing, more than one node when it is ambiguous
nodeByKey(data, key) == {i \in 1..Len(data) : data[i].id = key}

\* stratify's second loop: attach every node to its parent, in record order;
\* the first failure throws
RECURSIVE linkNodes(_, _, _)
linkNodes(data, i, acc) ==
    IF i > Len(data) \/ acc.error # "" THEN acc
    ELSE IF hasParentKey(data[i])
    THEN LET S == nodeByKey(data, data[i].parentid)
             p == CHOOSE n \in S : TRUE
         IN  IF S = {} THEN [acc EXCEPT !.error = "missing"]
             ELSE IF Cardinality(S) > 1 THEN [acc EXCEPT !.error = "ambiguous"]
             ELSE linkNodes(data, i + 1,
                     [acc EXCEPT !.children[p] = Append(@, i), !.parent[i] = p])
    ELSE IF acc.root # NoNode THEN [acc EXCEPT !.error = "multiple roots"]
    ELSE linkNodes(data, i + 1, [acc EXCEPT !.root = i])

\* the nodes root.eachBefore visits: the node and everything below it
RECURSIVE subtree(_, _)
subtree(kids, n) ==
    {n} \cup UNION {subtree(kids, kids[n][j]) : j \in 1..Len(kids[n])}

\* d3.stratify()(data): an error, or the root with parent and children links
stratify(data) ==
    LET N == 1..Len(data)
        linked == linkNodes(data, 1, [error |-> "", root |-> NoNode,
                                      parent |-> [n \in N |-> NoNode],
                                      children |-> [n \in N |-> << >>]])
    IN  IF linked.error # "" THEN linked
        ELSE IF linked.root = NoNode THEN [linked EXCEPT !.error = "no root"]
        ELSE IF Cardinality(subtree(linked.children, linked.root)) < Len(data)
             THEN [linked EXCEPT !.error = "cycle"]
        ELSE linked

\* (a, b) => (a.data.name || "").localeCompare(b.data.name || "")
compareNames(data, a, b) == localeCompare(orEmpty(data[a].name), orEmpty(data[b].name))

\* Array.prototype.sort is stable: an element goes after every element that
\* does not compare greater than it
RECURSIVE insertSorted(_, _, _)
insertSorted(data, s, n) ==
    IF s = << >> THEN <<n>>
    ELSE IF compareNames(data, n, Head(s)) < 0 THEN <<n>> \o s
    ELSE <<Head(s)>> \o insertSorted(data, Tail(s), n)

RECURSIVE sortChildren(_, _)
sortChildren(data, s) ==
    IF s = << >> THEN << >>
    ELSE insertSorted(data, sortChildren(data, SubSeq(s, 1, Len(s) - 1)), s[Len(s)])

\* mutant of sortTree: the sort is left out
sortTreeUnsorted(data, kids) == kids

\* root.sort(compare): every node's children array is sorted
sortTree(data, kids) == [n \in DOMAIN kids |-> sortChildren(data, kids[n])]

-----------------------------------------------------------------------------
(* The tree: t.children[n] and t._children[n] are the two containers of n *)

\* mutant of allChildren: the hidden container is left out
visibleChildrenOnly(t, n) == t.children[n]

\* (node.children || []).concat(node._children || [])
allChildren(t, n) == t.children[n] \o t._children[n]

\* mutant of childTotal: the child itself is not counted
childTotalNoSelf(r, child) == r.totalDescendants[child]

\* what one child adds to its parent's total: the child itself and its total
childTotal(r, child) == r.totalDescendants[child] + 1

\* calculateReports(node); r holds directReports and totalDescendants
RECURSIVE calculateReports(_, _, _)
RECURSIVE calculateReportsEach(_, _, _, _, _)
calculateReportsEach(t, r, kids, i, total) ==
    IF i > Len(kids) THEN [r |-> r, total |-> total]
    ELSE LET r1 == calculateReports(t, r, kids[i])
         IN  calculateReportsEach(t, r1, kids, i + 1,
                                  total + childTotal(r1, kids[i]))

calculateReports(t, r, node) ==
    LET r0 == [r EXCEPT !.directReports[node] = 0, !.totalDescendants[node] = 0]
        kids == allChildren(t, node)
    IN  IF Len(kids) > 0
        THEN LET done == calculateReportsEach(t,
                            [r0 EXCEPT !.directReports[node] = Len(kids)], kids, 1, 0)
             IN  [done.r EXCEPT !.totalDescendants[node] = done.total]
        ELSE r0

\* mutant of collapse: the node alone is collapsed, not the nodes beneath it
collapseShallow(t, d) ==
    IF t.children[d] # << >>
    THEN [t EXCEPT !._children[d] = t.children[d], !.children[d] = << >>]
    ELSE t

\* collapse(d), used for the initial collapse
RECURSIVE collapse(_, _)
RECURSIVE collapseEach(_, _, _)
collapseEach(t, kids, i) ==
    IF i > Len(kids) THEN t ELSE collapseEach(collapse(t, kids[i]), kids, i + 1)

collapse(t, d) ==
    IF t.children[d] # << >>
    THEN LET t1 == [t EXCEPT !._children[d] = t.children[d]]
             t2 == collapseEach(t1, t1._children[d], 1)
         IN  [t2 EXCEPT !.children[d] = << >>]
    ELSE t

\* expandAll(d)
RECURSIVE expandAll(_, _)
RECURSIVE expandAllEach(_, _, _)
expandAllEach(t, kids, i) ==
    IF i > Len(kids) THEN t ELSE expandAllEach(expandAll(t, kids[i]), kids, i + 1)

\* mutant of expandAll: d is expanded, the nodes beneath it are left alone
expandAllShallow(t, d) ==
    IF t._children[d] # << >>
    THEN [t EXCEPT !.children[d] = t._children[d], !._children[d] = << >>]
    ELSE t

expandAll(t, d) ==
    LET t1 == IF t._children[d] # << >>
              THEN [t EXCEPT !.children[d] = t._children[d], !._children[d] = << >>]
              ELSE t
    IN  IF t1.children[d] # << >> THEN expandAllEach(t1, t1.children[d], 1) ELSE t1

\* collapseAll(d)
RECURSIVE collapseAll(_, _)
RECURSIVE collapseAllEach(_, _, _)
collapseAllEach(t, kids, i) ==
    IF i > Len(kids) THEN t ELSE collapseAllEach(collapseAll(t, kids[i]), kids, i + 1)

collapseAll(t, d) ==
    IF t.children[d] # << >>
    THEN LET t1 == [t EXCEPT !._children[d] = t.children[d], !.children[d] = << >>]
         IN  collapseAllEach(t1, t1._children[d], 1)
    ELSE t

\* mutant of collapseToLayer2: the root is expanded, nothing is collapsed
collapseToLayer2RootOnly(t, rt) ==
    IF t._children[rt] # << >>
    THEN [t EXCEPT !.children[rt] = t._children[rt], !._children[rt] = << >>]
    ELSE t

\* mutant of collapseToLayer2: a collapsed root is left collapsed
collapseToLayer2KeepRoot(t, rt) ==
    IF t.children[rt] # << >> THEN collapseAllEach(t, t.children[rt], 1) ELSE t

\* collapseToLayer2(), the tree part: expand the root, collapseAll its children
collapseToLayer2(t, rt) ==
    LET t1 == IF t._children[rt] # << >>
              THEN [t EXCEPT !.children[rt] = t._children[rt], !._children[rt] = << >>]
              ELSE t
    IN  IF t1.children[rt] # << >> THEN collapseAllEach(t1, t1.children[rt], 1) ELSE t1

\* mutant of click: expanding leaves the hidden container filled
clickKeepsHidden(t, d) ==
    IF t.children[d] # << >>
    THEN [t EXCEPT !._children[d] = t.children[d], !.children[d] = << >>]
    ELSE [t EXCEPT !.children[d] = t._children[d]]

\* mutant of click: the else branch is missing, a click only collapses
clickCollapseOnly(t, d) ==
    IF t.children[d] # << >>
    THEN [t EXCEPT !._children[d] = t.children[d], !.children[d] = << >>]
    ELSE t

\* mutant of click: collapsing d collapses the nodes beneath it too
clickRecursive(t, d) ==
    IF t.children[d] # << >>
    THEN collapseAll(t, d)
    ELSE [t EXCEPT !.children[d] = t._children[d], !._children[d] = << >>]

\* click(event, d), the tree part
click(t, d) ==
    IF t.children[d] # << >>
    THEN [t EXCEPT !._children[d] = t.children[d], !.children[d] = << >>]
    ELSE [t EXCEPT !.children[d] = t._children[d], !._children[d] = << >>]

-----------------------------------------------------------------------------
(* Search *)

\* the test of dfs on one node: lower-cased name or id contains q
matchesText(data, node, q) ==
    LET name == toLowerCase(orEmpty(data[node].name))
        id == toLowerCase(orEmpty(data[node].id))
    IN  (name # << >> /\ includes(name, q)) \/ (id # << >> /\ includes(id, q))

\* dfs(node) of findNodeByText: the first match in the subtree of node, over
\* children and then _children; NoNode when found stays null
RECURSIVE dfs(_, _, _, _)
RECURSIVE dfsEach(_, _, _, _, _)
\* mutant of dfsEach: the children are visited from the last to the first
dfsEachBackwards(t, data, kids, i, q) ==
    IF i > Len(kids) THEN NoNode
    ELSE LET f == dfs(t, data, kids[Len(kids) + 1 - i], q)
         IN  IF f # NoNode THEN f ELSE dfsEach(t, data, kids, i + 1, q)

dfsEach(t, data, kids, i, q) ==
    IF i > Len(kids) THEN NoNode
    ELSE LET f == dfs(t, data, kids[i], q)
         IN  IF f # NoNode THEN f ELSE dfsEach(t, data, kids, i + 1, q)

dfs(t, data, node, q) ==
    IF matchesText(data, node, q) THEN node
    ELSE dfsEach(t, data, allChildren(t, node), 1, q)

\* findNodeByText(rootNode, text)
findNodeByText(t, data, rootNode, text) == dfs(t, data, rootNode, toLowerCase(text))

\* expandAncestors(node)
RECURSIVE expandAncestors(_, _, _)
\* mutant of expandAncestors: the climb stops at the parent
expandAncestorsParentOnly(t, par, cur) ==
    IF cur # NoNode /\ par[cur] # NoNode /\ t._children[par[cur]] # << >>
    THEN [t EXCEPT !.children[par[cur]] = t._children[par[cur]],
                   !._children[par[cur]] = << >>]
    ELSE t

expandAncestors(t, par, cur) ==
    IF cur # NoNode /\ par[cur] # NoNode
    THEN LET p == par[cur]
             t1 == IF t._children[p] # << >>
                   THEN [t EXCEPT !.children[p] = t._children[p], !._children[p] = << >>]
                   ELSE t
         IN  expandAncestors(t1, par, p)
    ELSE t

\* collapseSubtree(node)
RECURSIVE collapseSubtree(_, _)
RECURSIVE collapseSubtreeEach(_, _, _)
collapseSubtreeEach(t, kids, i) ==
    IF i > Len(kids) THEN t
    ELSE collapseSubtreeEach(collapseSubtree(t, kids[i]), kids, i + 1)

collapseSubtree(t, node) ==
    IF t.children[node] # << >>
    THEN LET t1 == [t EXCEPT !._children[node] = t.children[node],
                             !.children[node] = << >>]
         IN  collapseSubtreeEach(t1, t1._children[node], 1)
    ELSE t

\* the keep set of collapseAllExceptPathTo: the target and its ancestors
RECURSIVE pathTo(_, _)
pathTo(par, cur) == IF cur = NoNode THEN {} ELSE {cur} \cup pathTo(par, par[cur])

\* walk(node) of collapseAllExceptPathTo
RECURSIVE walk(_, _, _)
RECURSIVE walkEach(_, _, _, _)
walkEach(t, keep, kids, i) ==
    IF i > Len(kids) THEN t ELSE walkEach(walk(t, keep, kids[i]), keep, kids, i + 1)

walk(t, keep, node) ==
    LET t1 == IF node \notin keep THEN collapseSubtree(t, node) ELSE t
    IN  walkEach(t1, keep, allChildren(t1, node), 1)

\* collapseAllExceptPathTo(targetNode)
collapseAllExceptPathTo(t, par, rt, targetNode) == walk(t, pathTo(par, targetNode), rt)

\* treeData.descendants(): the nodes the layout reaches through children
descendants(t, rt) == subtree(t.children, rt)

-----------------------------------------------------------------------------
(* Layout: d3.tree().nodeSize([NODE_HEIGHT + VERTICAL_NODE_GAP,               *)
(* NODE_WIDTH + HORIZONTAL_NODE_GAP]), the tidy-tree layout of d3-hierarchy *)

NODE_WIDTH == 225
NODE_HEIGHT == 50
HORIZONTAL_NODE_GAP == 100
VERTICAL_NODE_GAP == 10

\* the layout works in fractions of the sibling separation (halves for
\* midpoints, shift / distance for spread siblings); they are kept exact as
\* integers in units of 1/Resolution of one separation
Resolution == 2 * (NODE_HEIGHT + VERTICAL_NODE_GAP)

\* exact division; a quotient the resolution cannot hold has no value
Ratio(a, b) == IF a % b = 0 THEN a \div b ELSE CHOOSE q \in {} : TRUE

\* treeRoot(root): the layout's own tree, every field of TreeNode as a function
\* of the node; NoNode stands for the extra parent placed above the root.
\* kids[n], par[n], i[n]: children, parent, number among the siblings (from 0)
treeRoot(kids, par, rt) ==
    LET N == DOMAIN kids
        K == [n \in N \cup {NoNode} |-> IF n = NoNode THEN <<rt>> ELSE kids[n]]
        P == [n \in N \cup {NoNode} |-> IF n = NoNode THEN NoNode ELSE par[n]]
        I == [n \in N \cup {NoNode} |->
                IF n = NoNode THEN 0
                ELSE IF n = rt THEN 0
                ELSE IF \E j \in 1..Len(K[P[n]]) : K[P[n]][j] = n
                THEN (CHOOSE j \in 1..Len(K[P[n]]) : K[P[n]][j] = n) - 1
                ELSE 0]
        zero == [n \in N \cup {NoNode} |-> 0]
    IN  [kids |-> K, par |-> P, i |-> I,
         A |-> [n \in N \cup {NoNode} |-> NoNode],
         a |-> [n \in N \cup {NoNode} |-> n],
         z |-> zero, m |-> zero, c |-> zero, s |-> zero,
         t |-> [n \in N \cup {NoNode} |-> NoNode]]

\* nextLeft(v), nextRight(v)
nextLeft(w, v) == IF w.kids[v] # << >> THEN w.kids[v][1] ELSE w.t[v]
nextRight(w, v) == IF w.kids[v] # << >> THEN w.kids[v][Len(w.kids[v])] ELSE w.t[v]

\* mutant of separation: no room between neighbours
separationNone(w, a, b) == 0

\* separation(a, b): 1 for siblings, 2 otherwise
separation(w, a, b) == IF w.par[a] = w.par[b] THEN Resolution ELSE 2 * Resolution

\* moveSubtree(wm, wp, shift)
moveSubtree(w, wm, wp, shift) ==
    LET change == Ratio(shift, w.i[wp] - w.i[wm])
        w1 == [w EXCEPT !.c[wp] = @ - change, !.s[wp] = @ + shift]
        w2 == [w1 EXCEPT !.c[wm] = @ + change]
    IN  [w2 EXCEPT !.z[wp] = @ + shift, !.m[wp] = @ + shift]

\* executeShifts(v): the loop from the last child down to the first
RECURSIVE executeShiftsFrom(_, _, _, _, _)
executeShiftsFrom(w, v, j, shift, change) ==
    IF j < 1 THEN w
    ELSE LET c == w.kids[v][j]
             w1 == [w EXCEPT !.z[c] = @ + shift, !.m[c] = @ + shift]
             change1 == change + w1.c[c]
         IN  executeShiftsFrom(w1, v, j - 1, shift + w1.s[c] + change1, change1)

executeShifts(w, v) == executeShiftsFrom(w, v, Len(w.kids[v]), 0, 0)

\* nextAncestor(vim, v, ancestor)
nextAncestor(w, vim, v, ancestor) ==
    IF w.par[w.a[vim]] = w.par[v] THEN w.a[vim] ELSE ancestor

\* apportion, after the while loop: the two thread assignments; vim and vip
\* are the values the loop test read
apportionThreads(w, v, ancestor, vim, vip, vop, vom, sip, sop, sim, som) ==
    LET w1 == IF vim # NoNode /\ nextRight(w, vop) = NoNode
              THEN [w EXCEPT !.t[vop] = vim, !.m[vop] = @ + sim - sop]
              ELSE w
        thread == vip # NoNode /\ nextLeft(w1, vom) = NoNode
    IN  [w |-> IF thread
               THEN [w1 EXCEPT !.t[vom] = vip, !.m[vom] = @ + sip - som]
               ELSE w1,
         ancestor |-> IF thread THEN v ELSE ancestor]

\* the while loop of apportion; vim, vip are the contours the test of the loop
\* advances, apportionMove is the body up to moveSubtree and apportionSums the
\* four sums that end it
RECURSIVE apportionLoop(_, _, _, _, _, _, _, _, _, _, _)
apportionSums(w, v, ancestor, vip, vop, vim, vom, sip, sop, sim, som) ==
    apportionLoop(w, v, ancestor, vip, vop, vim, vom,
                  sip + w.m[vip], sop + w.m[vop], sim + w.m[vim], som + w.m[vom])

apportionMove(w, v, ancestor, vip, vop, vim, vom, sip, sop, sim, som) ==
    LET shift == w.z[vim] + sim - w.z[vip] - sip + separation(w, vim, vip)
    IN  IF shift > 0
        THEN apportionSums(moveSubtree(w, nextAncestor(w, vim, v, ancestor), v, shift),
                           v, ancestor, vip, vop, vim, vom,
                           sip + shift, sop + shift, sim, som)
        ELSE apportionSums(w, v, ancestor, vip, vop, vim, vom, sip, sop, sim, som)

apportionLoop(w, v, ancestor, vip, vop, vim, vom, sip, sop, sim, som) ==
    IF nextRight(w, vim) # NoNode /\ nextLeft(w, vip) # NoNode
    THEN apportionMove([w EXCEPT !.a[nextRight(w, vop)] = v], v, ancestor,
                       nextLeft(w, vip), nextRight(w, vop),
                       nextRight(w, vim), nextLeft(w, vom), sip, sop, sim, som)
    ELSE apportionThreads(w, v, ancestor, nextRight(w, vim), nextLeft(w, vip),
                          vop, vom, sip, sop, sim, som)

\* apportion(v, w, ancestor); lw is the left sibling, NoNode for none
apportion(w, v, lw, ancestor) ==
    IF lw # NoNode
    THEN apportionLoop(w, v, ancestor, v, v, lw, w.kids[w.par[v]][1],
                       w.m[v], w.m[v], w.m[lw], w.m[w.kids[w.par[v]][1]])
    ELSE [w |-> w, ancestor |-> ancestor]

\* firstWalk(v), the node with children: executeShifts is done (e), v is put
\* at the midpoint of its children or next to its left sibling lw
\* mutant of firstWalkInner: the node goes over its first child
firstWalkInnerOverFirst(e, v, lw) ==
    LET midpoint == e.z[e.kids[v][1]]
    IN  IF lw # NoNode
        THEN [e EXCEPT !.z[v] = e.z[lw] + separation(e, v, lw),
                       !.m[v] = e.z[lw] + separation(e, v, lw) - midpoint]
        ELSE [e EXCEPT !.z[v] = midpoint]

firstWalkInner(e, v, lw) ==
    LET midpoint == Ratio(e.z[e.kids[v][1]] + e.z[e.kids[v][Len(e.kids[v])]], 2)
    IN  IF lw # NoNode
        THEN [e EXCEPT !.z[v] = e.z[lw] + separation(e, v, lw),
                       !.m[v] = e.z[lw] + separation(e, v, lw) - midpoint]
        ELSE [e EXCEPT !.z[v] = midpoint]

\* firstWalk(v), the leaf
firstWalkLeaf(w, v, lw) ==
    IF lw # NoNode THEN [w EXCEPT !.z[v] = w.z[lw] + separation(w, v, lw)] ELSE w

\* firstWalk(v), its last line: v.parent.A = apportion(v, w, v.parent.A || siblings[0])
firstWalkApportion(w, v, lw) ==
    LET done == apportion(w, v, lw,
                          IF w.A[w.par[v]] # NoNode
                          THEN w.A[w.par[v]]
                          ELSE w.kids[w.par[v]][1])
    IN  [done.w EXCEPT !.A[w.par[v]] = done.ancestor]

\* firstWalk(v); w is the left sibling, NoNode for none
firstWalk(w, v) ==
    LET lw == IF w.i[v] # 0 THEN w.kids[w.par[v]][w.i[v]] ELSE NoNode
    IN  firstWalkApportion(IF w.kids[v] # << >>
                           THEN firstWalkInner(executeShifts(w, v), v, lw)
                           ELSE firstWalkLeaf(w, v, lw),
                           v, lw)

\* t.eachAfter(firstWalk): children left to right, then the node
RECURSIVE eachAfterFirstWalk(_, _)
RECURSIVE eachAfterFirstWalkKids(_, _, _)
eachAfterFirstWalkKids(w, v, j) ==
    IF j > Len(w.kids[v]) THEN w
    ELSE eachAfterFirstWalkKids(eachAfterFirstWalk(w, w.kids[v][j]), v, j + 1)

eachAfterFirstWalk(w, v) == firstWalk(eachAfterFirstWalkKids(w, v, 1), v)

\* t.eachBefore(secondWalk): x of every node, given the mod of its parent
RECURSIVE secondWalk(_, _, _)
RECURSIVE secondWalkKids(_, _, _, _)
secondWalkKids(w, v, j, xs) ==
    IF j > Len(w.kids[v]) THEN [w |-> w, x |-> xs]
    ELSE LET r == secondWalk(w, w.kids[v][j], xs)
         IN  secondWalkKids(r.w, v, j + 1, r.x)

secondWalk(w, v, xs) ==
    LET pm == w.m[w.par[v]]
    IN  secondWalkKids([w EXCEPT !.m[v] = @ + pm], v, 1,
                       [xs EXCEPT ![v] = w.z[v] + pm])

\* tree(root) after the first walk: t.parent.m = -t.z, the second walk, and
\* sizeNode of nodeSize([dx, dy]) (node.x *= dx): x of every node, in pixels
sizeNode(w, rt) ==
    LET xs == secondWalk([w EXCEPT !.m[NoNode] = -w.z[rt]], rt,
                         [n \in DOMAIN w.kids \ {NoNode} |-> 0]).x
    IN  [n \in DOMAIN xs |-> Ratio(xs[n] * (NODE_HEIGHT + VERTICAL_NODE_GAP), Resolution)]

\* tree(root): x of every node of the layout
treeLayout(kids, par, rt) ==
    sizeNode(eachAfterFirstWalk(treeRoot(kids, par, rt), rt), rt)

\* node.depth, as stratify computes it
RECURSIVE depthOf(_, _)
depthOf(par, n) == IF par[n] = NoNode THEN 0 ELSE 1 + depthOf(par, par[n])

\* treeData.descendants(): the nodes of the layout in the order of the
\* iterator of d3-hierarchy, level by level
RECURSIVE breadthFirst(_, _)
breadthFirst(kids, queue) ==
    IF queue = << >> THEN << >>
    ELSE <<Head(queue)>> \o breadthFirst(kids, Tail(queue) \o kids[Head(queue)])

\* mutant of extent: the shift is the margin alone, whatever the layout
extentFixedShift(nodes, xs, ys) ==
    LET minBreadth == CHOOSE v \in {xs[n] : n \in nodes} : \A n \in nodes : v <= xs[n]
        maxBreadth == CHOOSE v \in {xs[n] : n \in nodes} : \A n \in nodes : v >= xs[n]
        maxDepth == CHOOSE v \in {ys[n] : n \in nodes} : \A n \in nodes : v >= ys[n]
    IN  [svgWidth |-> (maxDepth + NODE_WIDTH) + 100,
         svgHeight |-> ((maxBreadth - minBreadth) + NODE_HEIGHT) + 100,
         verticalShift |-> 50,
         horizontalOffset2 |-> NODE_WIDTH + 2 * 20]

\* update, part 2 (dynamic resizing) and part 3 (alignment): the extent of the
\* layout, the size of the svg element and the shift of the g element.
\* horizontalOffset is NODE_WIDTH / 2 + 20, half a pixel off an integer, so
\* the record holds twice its value.
extent(nodes, xs, ys) ==
    LET minBreadth == CHOOSE v \in {xs[n] : n \in nodes} : \A n \in nodes : v <= xs[n]
        maxBreadth == CHOOSE v \in {xs[n] : n \in nodes} : \A n \in nodes : v >= xs[n]
        maxDepth == CHOOSE v \in {ys[n] : n \in nodes} : \A n \in nodes : v >= ys[n]
    IN  [svgWidth |-> (maxDepth + NODE_WIDTH) + 100,
         svgHeight |-> ((maxBreadth - minBreadth) + NODE_HEIGHT) + 100,
         verticalShift |-> (IF minBreadth < 0 THEN -minBreadth ELSE minBreadth) + 50,
         horizontalOffset2 |-> NODE_WIDTH + 2 * 20]

\* mutant of bound: no datum is bound to an element
boundNothing(group, data, id, k) == 0

\* g.selectAll('g.node').data(nodes, d => d.id), the keyed join of
\* d3-selection. group: the g.node elements in document order, each with
\* its datum d; data: the nodes of the layout; id: the key of a node.
\* Of the elements with one key the first is the one a datum can take, and of
\* the data with one key the first is the one that takes it.
\* bound(group, data, id, k): the place in group of the element datum k is
\* bound to (it is in the update selection), 0 when datum k enters
bound(group, data, id, k) ==
    IF /\ \A j \in 1..(k - 1) : id[data[j]] # id[data[k]]
       /\ \E i \in 1..Len(group) : id[group[i].d] = id[data[k]]
    THEN CHOOSE i \in 1..Len(group) :
            /\ id[group[i].d] = id[data[k]]
            /\ \A j \in 1..(i - 1) : id[group[j].d] # id[data[k]]
    ELSE 0

\* b[k] is bound(group, data, id, k) for every datum k, from datum k on
RECURSIVE bindingFrom(_, _, _, _)
bindingFrom(group, data, id, k) ==
    IF k > Len(data) THEN << >>
    ELSE <<bound(group, data, id, k)>> \o bindingFrom(group, data, id, k + 1)

binding(group, data, id) == bindingFrom(group, data, id, 1)

\* the datum element i is bound to, 0 when element i is in the exit selection
datumOf(b, i) ==
    IF \E k \in DOMAIN b : b[k] = i THEN CHOOSE k \in DOMAIN b : b[k] = i ELSE 0

\* EnterNode._next of datum k: the element of the first later datum that is
\* in the update selection, 0 (null) for none
nextOf(b, k) ==
    IF \E j \in DOMAIN b : j > k /\ b[j] # 0
    THEN b[CHOOSE j \in DOMAIN b :
              /\ j > k /\ b[j] # 0
              /\ \A h \in DOMAIN b : (h > k /\ h < j) => b[h] = 0]
    ELSE 0

\* next[k] is nextOf(b, k) for every datum k, from datum k on
RECURSIVE nextFrom(_, _)
nextFrom(b, k) ==
    IF k > Len(b) THEN << >> ELSE <<nextOf(b, k)>> \o nextFrom(b, k + 1)

\* node.enter().append('g'): the new elements inserted before element i
\* (parent.insertBefore(child, this._next)), i = 0 for those appended last;
\* data k, k + 1, ... in turn
RECURSIVE entered(_, _, _, _, _)
entered(data, b, next, i, k) ==
    IF k > Len(data) THEN << >>
    ELSE (IF b[k] = 0 /\ next[k] = i
          THEN << [d |-> data[k], exiting |-> FALSE] >>
          ELSE << >>)
         \o entered(data, b, next, i, k + 1)

\* element i after the join: bound to its new datum (a transition of the
\* update selection takes the place of an exit transition in progress), or
\* exiting with the datum it had
rebound(group, data, b, i) ==
    IF datumOf(b, i) # 0
    THEN [d |-> data[datumOf(b, i)], exiting |-> FALSE]
    ELSE [d |-> group[i].d, exiting |-> TRUE]

\* the g.node elements after enter, update and exit, in document order, from
\* element i on
RECURSIVE joined(_, _, _, _, _)
joined(group, data, b, next, i) ==
    IF i > Len(group) THEN entered(data, b, next, 0, 1)
    ELSE entered(data, b, next, i, 1) \o <<rebound(group, data, b, i)>>
         \o joined(group, data, b, next, i + 1)

\* the position (horizontal, vertical) held in fields fy, fx of node n; << >>
\* when the node has no such fields (the text of the transform would read
\* undefined)
translate(fy, fx, n) == IF n \in DOMAIN fx THEN <<fy[n], fx[n]>> ELSE << >>

\* the join of one update(source): the elements it leaves and what it did
\* with each node; entering elements start at (source.y0, source.x0),
\* exiting ones go to (source.y, source.x)
join(group, data, b, enterFrom, exitTo, source) ==
    [elements |-> joined(group, data, b, nextFrom(b, 1), 1),
     pass |-> [source |-> source,
               nodes |-> {data[k] : k \in DOMAIN b},
               before |-> {group[i].d : i \in 1..Len(group)},
               enter |-> {data[k] : k \in {h \in DOMAIN b : b[h] = 0}},
               update |-> {data[k] : k \in {h \in DOMAIN b : b[h] # 0}},
               exit |-> {group[i].d : i \in {h \in 1..Len(group) : datumOf(b, h) = 0}},
               enterFrom |-> enterFrom,
               exitTo |-> exitTo]]

\* mutant of saved: x0 and y0 are left as they were
savedNothing(nodes, nx, ny, r, j, size) ==
    [dom |-> {j.elements[i].d : i \in 1..Len(j.elements)},
     x |-> nx,
     y |-> ny,
     x0 |-> r.x0,
     y0 |-> r.y0,
     elements |-> j.elements,
     svg |-> size,
     pass |-> j.pass]

\* the rendering after the layout, the join j and the save of the positions:
\* the nodes of the layout have x and y from the layout and x0, y0 equal to
\* them, the other nodes keep what they had
saved(nodes, nx, ny, r, j, size) ==
    [dom |-> {j.elements[i].d : i \in 1..Len(j.elements)},
     x |-> nx,
     y |-> ny,
     x0 |-> [n \in DOMAIN r.x0 \cup nodes |-> IF n \in nodes THEN nx[n] ELSE r.x0[n]],
     y0 |-> [n \in DOMAIN r.y0 \cup nodes |-> IF n \in nodes THEN ny[n] ELSE r.y0[n]],
     elements |-> j.elements,
     svg |-> size,
     pass |-> j.pass]

\* mutant of positioned: entering elements start where the source is now
positionedFromCurrent(data, nodes, nx, ny, id, r, source) ==
    saved(nodes, nx, ny, r,
          join(r.elements, data, binding(r.elements, data, id),
               translate(ny, nx, source), translate(ny, nx, source), source),
          extent(nodes, nx, ny))

\* update(source) once the layout gave nodes their x and y (nx, ny)
positioned(data, nodes, nx, ny, id, r, source) ==
    saved(nodes, nx, ny, r,
          join(r.elements, data, binding(r.elements, data, id),
               translate(r.y0, r.x0, source), translate(ny, nx, source), source),
          extent(nodes, nx, ny))

\* the rest of update(source) once the layout is there: data is
\* treeData.descendants(), xs the x of the layout. The nodes of the layout
\* take x and y from it (y is node.depth * dy); the join gives each of them a
\* g.node element (the element of a node that left the layout stays, still
\* clickable, until its exit transition ends); last, x0, y0 are set to x, y
\* for the nodes of the layout.
\* r holds the rendering; a node has a coordinate once it is in the domain.
\* mutant of place: every node of the tree gets a position, hidden or not
placeEveryNode(data, xs, par, id, r, source) ==
    LET nodes == {data[k] : k \in 1..Len(data)}
    IN  positioned(data, nodes,
                   [n \in DOMAIN par |-> IF n \in nodes THEN xs[n] ELSE 0],
                   [n \in DOMAIN par |-> depthOf(par, n) * (NODE_WIDTH + HORIZONTAL_NODE_GAP)],
                   id, r, source)

place(data, xs, par, id, r, source) ==
    LET nodes == {data[k] : k \in 1..Len(data)}
    IN  positioned(data, nodes,
                   [n \in DOMAIN r.x \cup nodes |-> IF n \in nodes THEN xs[n] ELSE r.x[n]],
                   [n \in DOMAIN r.y \cup nodes |->
                       IF n \in nodes
                       THEN depthOf(par, n) * (NODE_WIDTH + HORIZONTAL_NODE_GAP)
                       ELSE r.y[n]],
                   id, r, source)

\* update(source), the part that stays in the program state
update(t, par, rt, id, r, source) ==
    place(breadthFirst(t.children, <<rt>>), treeLayout(t.children, par, rt),
          par, id, r, source)

\* update(source) and then update(root) until k calls are made
RECURSIVE updateTimes(_, _, _, _, _, _, _)
updateTimes(t, par, rt, id, r, source, k) ==
    IF k = 0 THEN r
    ELSE updateTimes(t, par, rt, id, update(t, par, rt, id, r, source), rt, k - 1)

-----------------------------------------------------------------------------
(* Inputs *)

\* longest payload among the enumerated ones
MaxRecords == 2

\* most g.node elements the document holds: a click is not taken while the
\* elements it would add are more than the document has room for
MaxElements == 7

Rec(id, parentid, name) == [id |-> id, parentid |-> parentid, name |-> name]

IdValues == {<< >>, <<"a">>, <<"b">>}
ParentValues == {UNDEF, << >>, <<"a">>, <<"b">>}
NameValues == {UNDEF, <<"A","l">>}

Records == {Rec(i, p, n) : i \in IdValues, p \in ParentValues, n \in NameValues}

\* every payload of at most MaxRecords records
SmallPayloads == UNION {[1..k -> Records] : k \in 0..MaxRecords}

\* the records of the root-and-two-reports example
ScenarioPayload ==
    << Rec(<<"A">>, << >>, <<"R","o","o","t">>),
       Rec(<<"B">>, <<"A">>, <<"B","o","b">>),
       Rec(<<"C">>, <<"A">>, <<"A","l","i","c","e">>) >>

\* a deeper chart: R over P and Q, P over X, X over K; Q comes first in the
\* payload and second by name, and K has no name
DeepPayload ==
    << Rec(<<"R">>, NULL, <<"R","o","o","t">>),
       Rec(<<"Q">>, <<"R">>, <<"b","o">>),
       Rec(<<"P">>, <<"R">>, <<"A","l">>),
       Rec(<<"X">>, <<"P">>, <<"C","y">>),
       Rec(<<"K">>, <<"X">>, UNDEF) >>

\* a payload the filter shortens (the first and third records are dropped);
\* the three reports of a differ in case only or have no name, and the last
\* two of them in name order (d, c) each have a report of their own, so the
\* layout has to move the subtree of c away from the subtree of d
FilteredPayload ==
    << Rec(<< >>, << >>, <<"A","l">>),
       Rec(<<"a">>, NULL, UNDEF),
       Rec(<<"b">>, UNDEF, <<"b","o">>),
       Rec(<<"c">>, <<"a">>, <<"A","l">>),
       Rec(<<"d">>, <<"a">>, <<"a","l">>),
       Rec(<<"e">>, <<"a">>, UNDEF),
       Rec(<<"f">>, <<"d">>, <<"b","o">>),
       Rec(<<"g">>, <<"c">>, UNDEF) >>

\* two reports of one root under one id: no parentid names the id that is
\* there twice, so the build takes the payload
DuplicatePayload ==
    << Rec(<<"a">>, << >>, <<"R","o","o","t">>),
       Rec(<<"b">>, <<"a">>, <<"A","l">>),
       Rec(<<"b">>, <<"a">>, UNDEF) >>

Payloads ==
    SmallPayloads \cup {ScenarioPayload, DeepPayload, FilteredPayload, DuplicatePayload}

\* the centring timers that may be pending at once
MaxTimers == 1

\* the payloads of the runs with events between a search and its timer
RacePayloads == {DeepPayload, FilteredPayload, ScenarioPayload}

\* what the user may type in the search box (after trim)
Queries == {<< >>, <<"k">>, <<"A","L">>, <<"c">>, <<"z","z">>}

-----------------------------------------------------------------------------
(* The program *)

tree == [children |-> children, _children |-> _children]

Nodes == DOMAIN children

\* no update() has run
NoPass == [source |-> NoNode, nodes |-> {}, before |-> {}, enter |-> {}, update |-> {},
           exit |-> {}, enterFrom |-> << >>, exitTo |-> << >>]

NoLast == [op |-> "none", node |-> NoNode, hidden |-> FALSE, again |-> FALSE]

Init ==
    /\ orgData \in Payloads
    /\ status = "loading"
    /\ root = NoNode
    /\ parent = << >>
    /\ children = << >>
    /\ _children = << >>
    /\ directReports = << >>
    /\ totalDescendants = << >>
    /\ dom = {}
    /\ elements = << >>
    /\ svg = << >>
    /\ x = << >>
    /\ y = << >>
    /\ x0 = << >>
    /\ y0 = << >>
    /\ updates = 0
    /\ timers = << >>
    /\ last = NoLast

\* node.id of every node: stratify takes it from the record
idsOf(clean) == [n \in 1..Len(clean) |-> clean[n].id]

\* the initial collapse: every child of the root that has children
RECURSIVE initialCollapse(_, _, _)
initialCollapse(t, kids, i) ==
    IF i > Len(kids) THEN t
    ELSE initialCollapse(IF t.children[kids[i]] # << >> THEN collapse(t, kids[i]) ELSE t,
                         kids, i + 1)

\* initializeChart(orgData), through the first update(root)
initializeChart(data) ==
    LET clean == cleanData(data)
        built == stratify(clean)
        N == 1..Len(clean)
        t0 == [children |-> sortTree(clean, built.children),
               _children |-> [n \in N |-> << >>]]
        r == calculateReports(t0, [directReports |-> [n \in N |-> 0],
                                   totalDescendants |-> [n \in N |-> 0]], built.root)
        t1 == IF t0.children[built.root] # << >>
              THEN initialCollapse(t0, t0.children[built.root], 1)
              ELSE t0
        none == [dom |-> {}, x |-> << >>, y |-> << >>, x0 |-> << >>, y0 |-> << >>,
                 elements |-> << >>, svg |-> << >>, pass |-> NoPass]
        \* root.x0 = 0; root.y0 = 0
        first == [none EXCEPT !.x0 = [n \in {built.root} |-> 0],
                              !.y0 = [n \in {built.root} |-> 0]]
    IN  IF built.error # ""
        THEN [status |-> "hierarchyError", root |-> NoNode, parent |-> << >>,
              tree |-> [children |-> << >>, _children |-> << >>],
              directReports |-> << >>, totalDescendants |-> << >>,
              rendering |-> none, updates |-> 0]
        ELSE [status |-> "ready", root |-> built.root, parent |-> built.parent,
              tree |-> t1,
              directReports |-> r.directReports,
              totalDescendants |-> r.totalDescendants,
              rendering |-> update(t1, built.parent, built.root,
                                   idsOf(clean), first, built.root),
              updates |-> 1]

\* what update reads and writes besides the tree; pass is what the selections
\* of the last update() held, which are local to it and kept by nothing
rendering == [dom |-> dom, x |-> x, y |-> y, x0 |-> x0, y0 |-> y0,
              elements |-> elements, svg |-> svg, pass |-> NoPass]

\* the rendering becomes r; the document holds MaxElements elements
Render(r) ==
    /\ Len(r.elements) <= MaxElements
    /\ dom' = r.dom
    /\ elements' = r.elements
    /\ svg' = r.svg
    /\ x' = r.x
    /\ y' = r.y
    /\ x0' = r.x0
    /\ y0' = r.y0

\* d3.json(...).then(orgData => ...)
Load ==
    /\ status = "loading"
    /\ IF Len(orgData) > 0
       THEN LET c == initializeChart(orgData)
            IN  /\ status' = c.status
                /\ root' = c.root
                /\ parent' = c.parent
                /\ children' = c.tree.children
                /\ _children' = c.tree._children
                /\ directReports' = c.directReports
                /\ totalDescendants' = c.totalDescendants
                /\ Render(c.rendering)
                /\ updates' = c.updates
       ELSE /\ status' = "emptyData"
            /\ UNCHANGED <<root, parent, children, _children, directReports,
                           totalDescendants, dom, elements, svg,
                           x, y, x0, y0, updates>>
    /\ last' = [NoLast EXCEPT !.op = "load"]
    /\ UNCHANGED <<orgData, timers>>

\* d3.json(...).catch(error => ...)
FetchFail ==
    /\ status = "loading"
    /\ status' = "fetchError"
    /\ last' = [NoLast EXCEPT !.op = "fetchFail"]
    /\ UNCHANGED <<orgData, root, parent, children, _children, directReports,
                   totalDescendants, dom, elements, svg,
                   x, y, x0, y0, updates, timers>>

\* node.id of the nodes of the tree
nodeId == idsOf(cleanData(orgData))

\* a handler leaves tree t behind after calling update(source) and then
\* update(root), k calls in all
Rendered(t, source, k) ==
    /\ children' = t.children
    /\ _children' = t._children
    /\ Render(updateTimes(t, parent, root, nodeId, rendering, source, k))
    /\ updates' = k
    /\ UNCHANGED <<orgData, status, root, parent, directReports, totalDescendants>>

\* the click listener of a g.node element: click(event, d), update(d)
Click(d) ==
    /\ status = "ready"
    /\ d \in dom
    /\ Rendered(click(tree, d), d, 1)
    /\ UNCHANGED timers
    /\ last' = [op |-> "click", node |-> d,
                hidden |-> d \notin descendants(tree, root),
                again |-> last.op = "click" /\ last.node = d]

\* the Expand All button: expandAll(root), update(root)
ExpandAllButton ==
    /\ status = "ready"
    /\ Rendered(expandAll(tree, root), root, 1)
    /\ UNCHANGED timers
    /\ last' = [NoLast EXCEPT !.op = "expandAll"]

\* the Collapse All button: collapseToLayer2() renders, then the handler
\* renders again
CollapseAllButton ==
    /\ status = "ready"
    /\ Rendered(collapseToLayer2(tree, root), root, 2)
    /\ UNCHANGED timers
    /\ last' = [NoLast EXCEPT !.op = "collapseAll"]

\* mutant of performSearch: the branches are collapsed before the result of
\* the lookup is tested
performSearchCollapseFirst(t, data, par, rt, q) ==
    LET found == findNodeByText(t, data, rt, q)
        collapsed == collapseAllExceptPathTo(t, par, rt, found)
    IN  IF q = << >> THEN [op |-> "searchEmpty", tree |-> t, updates |-> 0, found |-> NoNode]
        ELSE IF found = NoNode
        THEN [op |-> "searchNotFound", tree |-> collapsed, updates |-> 0, found |-> NoNode]
        ELSE [op |-> "search", tree |-> expandAncestors(collapsed, par, found),
              updates |-> 1, found |-> found]

\* performSearch() with q in the search box (trimmed): the tree it leaves,
\* the number of update() calls it makes and the node it found
performSearch(t, data, par, rt, q) ==
    LET found == findNodeByText(t, data, rt, q)
    IN  IF q = << >> THEN [op |-> "searchEmpty", tree |-> t, updates |-> 0, found |-> NoNode]
        ELSE IF found = NoNode
        THEN [op |-> "searchNotFound", tree |-> t, updates |-> 0, found |-> NoNode]
        ELSE [op |-> "search",
              tree |-> expandAncestors(collapseAllExceptPathTo(t, par, rt, found), par, found),
              updates |-> 1, found |-> found]

\* mutant of Search: the listeners are there whether the chart was built or not
SearchUnguarded(q) ==
    LET done == performSearch(tree, cleanData(orgData), parent, root, q)
    IN  /\ Len(timers) < MaxTimers
        /\ Rendered(done.tree, root, done.updates)
        /\ timers' = IF done.op = "search" THEN Append(timers, done.found) ELSE timers
        /\ last' = [op |-> done.op, node |-> done.found,
                    hidden |-> done.found # NoNode
                               /\ done.found \notin descendants(tree, root),
                    again |-> FALSE]

\* the search button or the Enter key: a search that finds a node leaves
\* setTimeout(() => centerOnNode(found), 60) pending
Search(q) ==
    /\ status = "ready"
    /\ Len(timers) < MaxTimers
    /\ LET done == performSearch(tree, cleanData(orgData), parent, root, q)
       IN  /\ Rendered(done.tree, root, done.updates)
           /\ timers' = IF done.op = "search" THEN Append(timers, done.found) ELSE timers
           /\ last' = [op |-> done.op, node |-> done.found,
                       hidden |-> done.found # NoNode
                                  /\ done.found \notin descendants(tree, root),
                       again |-> FALSE]

\* the exit transitions end: every exiting element is removed
ExitTransitionEnd ==
    /\ status = "ready"
    /\ \E i \in 1..Len(elements) : elements[i].exiting
    /\ elements' = SelectSeq(elements, LAMBDA e : ~e.exiting)
    /\ dom' = {elements'[i].d : i \in 1..Len(elements')}
    /\ UNCHANGED <<orgData, status, root, parent, children, _children,
                   directReports, totalDescendants, svg,
                   x, y, x0, y0, updates, timers, last>>

\* centerOnNode(node): tree(root) lays the visible tree out again, and the
\* target handed to container.scrollTo is taken from node.x and node.y as
\* they are then (pixelY2 is twice pixelY: NODE_WIDTH / 2 is no integer)
centerOnNode(t, par, rt, xs, ys, node) ==
    LET nodesArr == descendants(t, rt)
        lay == treeLayout(t.children, par, rt)
        nx == [n \in DOMAIN xs \cup nodesArr |-> IF n \in nodesArr THEN lay[n] ELSE xs[n]]
        ny == [n \in DOMAIN ys \cup nodesArr |->
                 IF n \in nodesArr
                 THEN depthOf(par, n) * (NODE_WIDTH + HORIZONTAL_NODE_GAP)
                 ELSE ys[n]]
        e == extent(nodesArr, nx, ny)
    IN  [x |-> nx, y |-> ny,
         pixelX |-> e.verticalShift + nx[node],
         pixelY2 |-> e.horizontalOffset2 + 2 * ny[node]]

\* the oldest centring timer fires: centerOnNode(found)
CenterTimer ==
    /\ timers # << >>
    /\ LET c == centerOnNode(tree, parent, root, x, y, Head(timers))
       IN  /\ x' = c.x
           /\ y' = c.y
    /\ timers' = Tail(timers)
    /\ last' = [NoLast EXCEPT !.op = "center", !.node = Head(timers),
                               !.hidden = Head(timers) \notin descendants(tree, root)]
    /\ UNCHANGED <<orgData, status, root, parent, children, _children,
                   directReports, totalDescendants, dom, elements, svg,
                   x0, y0, updates>>

\* the timers of a search run out before the next event arrives
Next ==
    \/ Load
    \/ FetchFail
    \/ timers = << >> /\ \E d \in Nodes : Click(d)
    \/ timers = << >> /\ ExpandAllButton
    \/ timers = << >> /\ CollapseAllButton
    \/ timers = << >> /\ \E q \in Queries : Search(q)
    \/ timers = << >> /\ ExitTransitionEnd
    \/ CenterTimer

Spec == Init /\ [][Next]_vars

\* the payloads of the runs in which events arrive while a timer is pending
InitRace == Init /\ orgData \in RacePayloads

\* events arrive at any time, also between a search and its timer
NextRace ==
    \/ Load
    \/ FetchFail
    \/ \E d \in Nodes : Click(d)
    \/ ExpandAllButton
    \/ CollapseAllButton
    \/ \E q \in Queries : Search(q)
    \/ ExitTransitionEnd
    \/ CenterTimer

SpecRace == InitRace /\ [][NextRace]_vars

-----------------------------------------------------------------------------
(* What the properties are stated against: the hierarchy as the records give it *)

IsKept(d) == d.id \notin {<< >>, UNDEF, NULL} /\ d.parentid # UNDEF

\* the records left after the filter; node n is built from recs[n]
recs == SelectSeq(orgData, IsKept)

IsRootRecord(d) == d.parentid = NULL \/ d.parentid = << >>

\* the records of r that name record n as their parent
KidsIn(r, n) ==
    {m \in 1..Len(r) : ~IsRootRecord(r[m]) /\ r[m].parentid = r[n].id}

\* the original child set of node n
OrigKids(n) == KidsIn(recs, n)

RECURSIVE BeneathIn(_, _)
BeneathIn(r, n) == KidsIn(r, n) \cup UNION {BeneathIn(r, m) : m \in KidsIn(r, n)}

\* the nodes strictly beneath n
Beneath(n) == BeneathIn(recs, n)

\* the record of r that record n names as its parent, NoNode for a root record
ParentIn(r, n) ==
    IF IsRootRecord(r[n]) THEN NoNode
    ELSE CHOOSE m \in 1..Len(r) : r[m].id = r[n].parentid

\* the parent of n by the records, NoNode for the root record
ParentOf(n) == ParentIn(recs, n)

RECURSIVE PathIn(_, _)
PathIn(r, n) == IF n = NoNode THEN {} ELSE {n} \cup PathIn(r, ParentIn(r, n))

\* n and its ancestors up to the root
PathFromRoot(n) == PathIn(recs, n)

Range(s) == {s[i] : i \in 1..Len(s)}

\* the nodes shown: reachable from the root through visible containers only
RECURSIVE ShownUnder(_)
ShownUnder(n) == {n} \cup UNION {ShownUnder(m) : m \in Range(children[n])}

Shown == ShownUnder(root)

Expanded(n) == children[n] # << >> /\ _children[n] = << >>
Collapsed(n) == children[n] = << >> /\ _children[n] # << >>

-----------------------------------------------------------------------------
(* C1 *)

\* C1: in every state reached after a successful load, each node's children
\* are all in one container, the other is empty, and the container that holds
\* them holds exactly the node's original children, each once.
C1_OneContainer ==
    status = "ready" =>
        /\ Nodes = 1..Len(recs)
        /\ \A n \in Nodes :
              /\ ~(children[n] # << >> /\ _children[n] # << >>)
              /\ Range(children[n] \o _children[n]) = OrigKids(n)
              /\ Len(children[n] \o _children[n]) = Cardinality(OrigKids(n))

C1_Witness ==
    /\ status = "ready"
    /\ last.op = "search"
    /\ \E n, m \in Nodes : n # root /\ Expanded(n) /\ Collapsed(m)

(* C2 *)

\* C2: every node's totalDescendants is the number of nodes strictly beneath
\* it and its directReports the number of its original children, in every
\* state, whatever has been toggled, expanded, collapsed or searched.
C2_ReportCounts ==
    status = "ready" =>
        \A n \in Nodes :
            /\ directReports[n] = Cardinality(OrigKids(n))
            /\ totalDescendants[n] = Cardinality(Beneath(n))

C2_Witness ==
    /\ status = "ready"
    /\ last.op = "collapseAll"
    /\ \E n \in Nodes : n # root /\ Collapsed(n) /\ totalDescendants[n] > directReports[n]

(* C3 *)

\* C3: toggling any node twice in a row puts both of its containers back as
\* they were, members and order, and shows the same nodes as before.
C3_ToggleTwice ==
    status = "ready" =>
        \A d \in Nodes :
            LET twice == click(click(tree, d), d)
            IN  /\ twice.children = children
                /\ twice._children = _children
                /\ descendants(twice, root) = Shown

C3_Witness ==
    /\ status = "ready"
    /\ last.op = "click"
    /\ last.again
    /\ OrigKids(last.node) # {}

(* C4 *)

CollapseAllOf(t) == collapseToLayer2(t, root)
ExpandAllOf(t) == expandAll(t, root)

\* C4: from the state the load leaves, collapse-to-layer-2, expandAll(root),
\* collapse-to-layer-2 shows the same nodes as one collapse-to-layer-2.
C4_CollapseExpandCollapse ==
    (status = "ready" /\ last.op = "load") =>
        descendants(CollapseAllOf(ExpandAllOf(CollapseAllOf(tree))), root)
            = descendants(CollapseAllOf(tree), root)

C4_Witness ==
    /\ status = "ready"
    /\ last.op = "load"
    /\ \E n \in Nodes : n # root /\ OrigKids(n) # {}
    /\ descendants(ExpandAllOf(CollapseAllOf(tree)), root) = Nodes
    /\ descendants(CollapseAllOf(tree), root) # Nodes

(* C5 *)

\* C5: after the collapse-all action the root is Expanded and every other node
\* that has children is Collapsed, whatever the state before, also the nodes
\* that were beneath a collapsed ancestor.
C5_CollapseAllCollapsesEveryNode ==
    (status = "ready" /\ last.op = "collapseAll") =>
        /\ OrigKids(root) # {} => Expanded(root)
        /\ \A n \in Nodes \ {root} : OrigKids(n) # {} => Collapsed(n)

(* C6 *)

\* the test the search applies to a node, on the records
\* on record d, q lower-cased
RecordMatches(d, lowered) ==
    \/ includes(toLowerCase(orEmpty(d.name)), lowered)
    \/ includes(toLowerCase(d.id), lowered)

TextMatches(n, q) == RecordMatches(recs[n], toLowerCase(q))

\* the nodes that q matches
MatchingIn(r, lowered) == {n \in 1..Len(r) : RecordMatches(r[n], lowered)}

Matching(q) == MatchingIn(recs, toLowerCase(q)) \cap Nodes

\* C6: a query that some node matches is found even when the only matching
\* nodes are hidden, and when a search has found a node every proper ancestor
\* of it is Expanded, the node is shown, and no node off the path from the
\* root to it keeps children in the visible container.
C6_SearchReveals ==
    status = "ready" =>
        /\ \A q \in Queries \ {<< >>} :
              \A hits \in {Matching(q)} :
                  hits # {} => findNodeByText(tree, recs, root, q) \in hits
        /\ last.op = "search" =>
              /\ \A a \in PathFromRoot(last.node) \ {last.node} : Expanded(a)
              /\ last.node \in Shown
              /\ \A n \in Nodes \ PathFromRoot(last.node) : children[n] = << >>

C6_Witness ==
    /\ status = "ready"
    /\ last.op = "search"
    /\ last.hidden
    /\ recs[last.node].name = UNDEF
    /\ Cardinality(PathFromRoot(last.node)) > 3

(* C7 *)

\* C7: a search for a text that no node's name or id contains is reported as
\* not found, and the step that reports it leaves every container, every
\* element, every position and every count as it was and runs no render pass.
C7_SearchMissChangesNothing ==
    /\ [](status = "ready" =>
            \A q \in Queries \ {<< >>} :
                (\A n \in Nodes : ~TextMatches(n, q)) =>
                    performSearch(tree, cleanData(orgData), parent, root, q).op
                        = "searchNotFound")
    /\ [][\A q \in Queries \ {<< >>} :
            (last'.op = "searchNotFound" /\ Search(q)) =>
                /\ UNCHANGED <<orgData, status, root, parent, children, _children,
                               directReports, totalDescendants, dom, elements, svg,
                               x, y, x0, y0>>
                /\ Shown' = Shown
                /\ updates' = 0]_vars

C7_Witness ==
    /\ status = "ready"
    /\ last.op = "searchNotFound"
    /\ updates = 0
    /\ dom # Shown
    /\ \E n \in Nodes \ {root} : Expanded(n)

(* C8 *)

RootsIn(r) == {i \in 1..Len(r) : IsRootRecord(r[i])}

RootRecords == RootsIn(recs)

UniqueIn(r) == \A i, j \in 1..Len(r) : i # j => r[i].id # r[j].id

UniqueIds == UniqueIn(recs)

NoOrphanIn(r) ==
    \A i \in 1..Len(r) \ RootsIn(r) : \E j \in 1..Len(r) : r[j].id = r[i].parentid

NoOrphan == NoOrphanIn(recs)

\* following parentid from record n arrives at a root record within fuel steps
RECURSIVE ClimbsToRoot(_, _, _)
ClimbsToRoot(r, n, fuel) ==
    IF IsRootRecord(r[n]) THEN TRUE
    ELSE IF fuel = 0 THEN FALSE
    ELSE ClimbsToRoot(r, ParentIn(r, n), fuel - 1)

NoCycleIn(r) == \A i \in 1..Len(r) : ClimbsToRoot(r, i, Len(r))

NoCycle == NoCycleIn(recs)

\* the nodes of the tree, through both containers
RECURSIVE TreeUnder(_)
TreeUnder(n) == {n} \cup UNION {TreeUnder(m) : m \in Range(children[n] \o _children[n])}

Loaded == status \notin {"loading", "fetchError"}

BuiltOneNodePerRecord ==
    /\ status = "ready"
    /\ Nodes = 1..Len(recs)
    /\ TreeUnder(root) = Nodes
    /\ Cardinality(TreeUnder(root)) = Len(recs)

\* C8 as stated: one root record, unique ids and no orphan reference are
\* enough for the build to succeed with one node per kept record.
C8_WellFormedBuilds ==
    (Loaded /\ Cardinality(RootRecords) = 1 /\ UniqueIds /\ NoOrphan) => BuiltOneNodePerRecord

\* C8 amended: one root record, unique ids, no orphan reference and no cycle
\* of parent references (every record reaches the root record) make the build
\* succeed with one node per kept record.
C8_AcyclicWellFormedBuilds ==
    (Loaded /\ Cardinality(RootRecords) = 1 /\ UniqueIds /\ NoOrphan /\ NoCycle)
        => BuiltOneNodePerRecord

C8_Witness ==
    /\ last.op = "load"
    /\ Cardinality(RootRecords) = 1 /\ UniqueIds /\ NoOrphan /\ NoCycle
    /\ status = "ready"
    /\ Len(recs) < Len(orgData)
    /\ Cardinality(TreeUnder(root)) > 1

(* C9 *)

NoTree ==
    /\ root = NoNode /\ Nodes = {} /\ dom = {} /\ updates = 0
    /\ elements = << >> /\ svg = << >>
    /\ x = << >> /\ y = << >> /\ x0 = << >> /\ y0 = << >>

\* C9: when the kept records hold no root record, two or more, or a parentid
\* that names no kept id, initializeChart stops with the hierarchy error and
\* there is no root, no node and no render, then and ever after. (A payload
\* of no records at all is turned away before initializeChart, with the
\* empty-data error, and leaves no tree either.)
C9_BadHierarchyFails ==
    (Loaded /\ (Cardinality(RootRecords) # 1 \/ ~NoOrphan)) =>
        /\ status = IF Len(orgData) > 0 THEN "hierarchyError" ELSE "emptyData"
        /\ NoTree

C9_Witness ==
    /\ status = "hierarchyError"
    /\ Cardinality(RootRecords) = 1
    /\ ~NoOrphan
    /\ NoTree

(* C10 *)

NameOf(n) == orEmpty(recs[n].name)

\* C10: in every state each node's children, in the container that holds
\* them, are its original children in ascending order of name, a missing name
\* counting as "" and equal names staying in record order; the example's root
\* has the children Alice, Bob.
C10_SiblingOrder ==
    status = "ready" =>
        /\ \A names \in {[m \in Nodes |-> NameOf(m)]} :
              \A n \in Nodes :
                  \A s \in {children[n] \o _children[n]} :
                      /\ Range(s) = OrigKids(n)
                      /\ \A i, j \in 1..Len(s) :
                            i < j =>
                                \A order \in {localeCompare(names[s[i]], names[s[j]])} :
                                    order < 0 \/ (order = 0 /\ s[i] < s[j])
        /\ orgData = ScenarioPayload =>
              [i \in 1..Len(children[root] \o _children[root]) |->
                    NameOf((children[root] \o _children[root])[i])]
                 = << <<"A","l","i","c","e">>, <<"B","o","b">> >>

C10_Witness ==
    /\ status = "ready"
    /\ last.op = "click"
    /\ \E n \in Nodes : /\ Len(_children[n]) > 2
                        /\ _children[n][1] > _children[n][2]
                        /\ _children[n][2] > _children[n][3]
                        /\ NameOf(_children[n][1]) = << >>

(* C11 *)

\* the least x among the nodes shown
MinBreadth == CHOOSE v \in {x[n] : n \in Shown} : \A n \in Shown : v <= x[n]

\* C11: after every update, the least breadth coordinate of the nodes shown,
\* moved by the vertical shift given to the g element, is at least the margin
\* of 50, and the rectangle of every node shown (NODE_WIDTH by NODE_HEIGHT
\* around the node's position, moved by the offsets of the g element) lies
\* within the width and the height given to the svg element. Horizontal
\* measures are doubled, the horizontal offset being half a pixel off an integer.
C11_InsideSvg ==
    status = "ready" =>
        /\ MinBreadth + svg.verticalShift >= 50
        /\ \A n \in Shown :
              /\ 2 * (x[n] + svg.verticalShift) - NODE_HEIGHT >= 0
              /\ 2 * (x[n] + svg.verticalShift) + NODE_HEIGHT <= 2 * svg.svgHeight
              /\ (2 * y[n] + svg.horizontalOffset2) - NODE_WIDTH >= 0
              /\ (2 * y[n] + svg.horizontalOffset2) + NODE_WIDTH <= 2 * svg.svgWidth

C11_Witness ==
    /\ status = "ready"
    /\ last.op = "expandAll"
    /\ MinBreadth < 0
    /\ svg.verticalShift > 50
    /\ \E n \in Shown : y[n] > NODE_WIDTH + HORIZONTAL_NODE_GAP

(* C12 *)

\* C12: in the state a successful load leaves, the root hides no child, every
\* child of the root that has children is collapsed and so is every node
\* beneath it that has children, and the nodes shown are the root and its
\* children, no more and no fewer.
C12_InitialState ==
    (status = "ready" /\ last.op = "load") =>
        /\ _children[root] = << >>
        /\ Range(children[root]) = OrigKids(root)
        /\ \A c \in OrigKids(root) :
              \A m \in {c} \cup Beneath(c) : OrigKids(m) # {} => Collapsed(m)
        /\ Shown = {root} \cup OrigKids(root)

C12_Witness ==
    /\ status = "ready"
    /\ last.op = "load"
    /\ \E c \in OrigKids(root) : OrigKids(c) = {}
    /\ \E c \in OrigKids(root) : \E m \in Beneath(c) : Collapsed(m)

(* C13 *)

\* the children of every node as the build leaves them, before any collapse
BuiltChildren == sortTree(recs, stratify(recs).children)

\* n, then the subtree of each child in turn
RECURSIVE PreOrder(_, _)
RECURSIVE PreOrderEach(_, _, _)
PreOrderEach(kids, s, i) ==
    IF i > Len(s) THEN << >> ELSE PreOrder(kids, s[i]) \o PreOrderEach(kids, s, i + 1)

PreOrder(kids, n) == <<n>> \o PreOrderEach(kids, kids[n], 1)

\* the first node of s that is in hits, NoNode for none
FirstIn(s, hits) ==
    IF \E i \in 1..Len(s) : s[i] \in hits
    THEN s[CHOOSE i \in 1..Len(s) :
              /\ s[i] \in hits
              /\ \A j \in 1..(i - 1) : s[j] \notin hits]
    ELSE NoNode

\* the first node of s that q matches, NoNode for none
FirstMatch(s, q) == FirstIn(s, Matching(q))

\* C13: in every state, whatever is collapsed, findNodeByText returns for
\* every query the first node, in pre-order over the children as the build
\* ordered them, whose lower-cased name or id contains the lower-cased query,
\* and null when there is none.
C13_SearchFirstInPreOrder ==
    status = "ready" =>
        \A order \in {PreOrder(BuiltChildren, root)} :
            \A q \in Queries :
                findNodeByText(tree, cleanData(orgData), root, q) = FirstMatch(order, q)

C13_Witness ==
    /\ status = "ready"
    /\ last.op = "click"
    /\ \E q \in Queries :
          /\ FirstMatch(PreOrder(BuiltChildren, root), q) \notin Shown \cup {NoNode}
          /\ \E n \in Nodes : TextMatches(n, q) /\ n < FirstMatch(PreOrder(BuiltChildren, root), q)

(* C14 *)

Distance(a, b) == IF a >= b THEN a - b ELSE b - a

\* C14: after every layout pass no two shown nodes overlap: two distinct
\* shown nodes at the same depth are at least NODE_HEIGHT + VERTICAL_NODE_GAP
\* apart on the breadth axis (x), and every shown node but the root is
\* farther along the depth axis (y) than its parent.
C14_NoOverlap ==
    status = "ready" =>
        /\ \A a \in Shown : \A b \in Shown \ {a} :
              y[a] = y[b] => Distance(x[a], x[b]) >= NODE_HEIGHT + VERTICAL_NODE_GAP
        /\ \A n \in Shown \ {root} : y[n] > y[parent[n]]

C14_Witness ==
    /\ status = "ready"
    /\ last.op = "expandAll"
    /\ \E a \in Shown : \E b \in Shown \ {a} :
          /\ y[a] = y[b]
          /\ parent[a] # parent[b]
          /\ Distance(x[a], x[b]) = 2 * (NODE_HEIGHT + VERTICAL_NODE_GAP)
    /\ \E a \in Shown : \E b \in Shown \ {a} :
          /\ parent[a] = parent[b]
          /\ Distance(x[a], x[b]) = NODE_HEIGHT + VERTICAL_NODE_GAP

(* C15 *)

\* n has the same position, or none, before and after the step
SamePosition(n) ==
    /\ n \in DOMAIN x' <=> n \in DOMAIN x
    /\ n \in DOMAIN y' <=> n \in DOMAIN y
    /\ n \in DOMAIN x => x'[n] = x[n]
    /\ n \in DOMAIN y => y'[n] = y[n]

\* C15: after every layout pass the depth coordinate (y) of every shown node
\* is its depth times NODE_WIDTH + HORIZONTAL_NODE_GAP, the root at 0, and a
\* step that runs update gives no new position to a node that is not
\* reachable from the root through visible children.
C15_DepthSpacing ==
    /\ [](status = "ready" =>
            /\ y[root] = 0
            /\ \A n \in Shown : y[n] = depthOf(parent, n) * (NODE_WIDTH + HORIZONTAL_NODE_GAP))
    /\ [][(status = "ready" /\ status' = "ready" /\ updates' > 0) =>
            \A n \in Nodes \ Shown' : SamePosition(n)]_vars

C15_Witness ==
    /\ status = "ready"
    /\ updates > 0
    /\ \E n \in Nodes \ Shown : n \in DOMAIN x /\ y[n] > NODE_WIDTH + HORIZONTAL_NODE_GAP
    /\ \E n \in Shown : y[n] > NODE_WIDTH + HORIZONTAL_NODE_GAP

(* C16 *)

RECURSIVE SumX(_, _)
SumX(s, i) == IF i > Len(s) THEN 0 ELSE x[s[i]] + SumX(s, i + 1)

\* C16, as stated: after every layout pass every shown node with visible
\* children is, on the breadth axis (x), at the mean of the x of its visible
\* children.
C16_ParentAtMean ==
    status = "ready" =>
        \A n \in Shown :
            children[n] # << >> => Len(children[n]) * x[n] = SumX(children[n], 1)

\* C16, amended: after every layout pass every shown node with visible
\* children is, on the breadth axis (x), halfway between its first and its
\* last visible child.
C16_ParentAtMidpoint ==
    status = "ready" =>
        \A n \in Shown :
            children[n] # << >> =>
                2 * x[n] = x[children[n][1]] + x[children[n][Len(children[n])]]

C16_Witness ==
    /\ status = "ready"
    /\ \E n \in Shown :
          /\ Len(children[n]) > 2
          /\ Len(children[n]) * x[n] # SumX(children[n], 1)
    /\ \E n \in Shown \ {root} : Len(children[n]) > 0 /\ x[n] # 0

(* C17 *)

\* C17: when update is done every shown node has x0 = x and y0 = y, and
\* every node that a later update can get as its source (the node of a
\* g.node element, which a click passes, and the root) has x0 and y0.
C17_PreviousPositionSaved ==
    status = "ready" =>
        /\ \A n \in Shown :
              /\ n \in DOMAIN x0 /\ n \in DOMAIN y0
              /\ x0[n] = x[n]
              /\ y0[n] = y[n]
        /\ \A d \in dom \cup {root} : d \in DOMAIN x0 /\ d \in DOMAIN y0

C17_Witness ==
    /\ status = "ready"
    /\ last.op = "click"
    /\ last.hidden
    /\ \E n \in Shown \ {root} : x0[n] # 0 /\ y0[n] > NODE_WIDTH + HORIZONTAL_NODE_GAP
    /\ \E d \in dom \ Shown : d \in DOMAIN x0

(* C18 *)

\* the update() calls the handlers make from the current state: the tree t
\* each is run on, its source, the rendering r it finds and the nodes shown
\* by the pass before it
ClickPasses ==
    {[t |-> click(tree, d), source |-> d, r |-> rendering, shown |-> Shown] : d \in dom}

ExpandAllPass ==
    [t |-> expandAll(tree, root), source |-> root, r |-> rendering, shown |-> Shown]

CollapseAllPass ==
    [t |-> collapseToLayer2(tree, root), source |-> root, r |-> rendering, shown |-> Shown]

\* the handler's own update(root) after the one collapseToLayer2() made
CollapseAllSecondPass ==
    [t |-> CollapseAllPass.t, source |-> root,
     r |-> update(CollapseAllPass.t, parent, root, nodeId, rendering, root),
     shown |-> descendants(CollapseAllPass.t, root)]

SearchPasses ==
    {[t |-> done.tree, source |-> root, r |-> rendering, shown |-> Shown] :
        done \in {s \in {performSearch(tree, recs, parent, root, q) : q \in Queries} :
                     s.op = "search"}}

HandlerPasses ==
    ClickPasses \cup SearchPasses \cup {ExpandAllPass, CollapseAllPass, CollapseAllSecondPass}

\* the pass that made rendering r out of h.r classified the nodes against
\* the set old: in the layout and not in old entering, from where the source
\* was before the pass; in both persisting; in old and not in the layout
\* exiting, to where the source is after the pass, its element kept for the
\* exit transition; the three classes apart and covering old and new
Classified(old, new, h, r) ==
    /\ r.pass.enter = new \ old
    /\ r.pass.update = new \cap old
    /\ r.pass.exit = old \ new
    /\ r.pass.enter # {} => r.pass.enterFrom = <<h.r.y0[h.source], h.r.x0[h.source]>>
    /\ r.pass.exit # {} => r.pass.exitTo = <<r.y[h.source], r.x[h.source]>>
    /\ \A n \in r.pass.update : n \in DOMAIN r.x /\ n \in DOMAIN r.y
    /\ \A i \in 1..Len(r.elements) : r.elements[i].exiting <=> r.elements[i].d \in old \ new
    /\ r.pass.enter \cap r.pass.update = {}
    /\ r.pass.enter \cap r.pass.exit = {}
    /\ r.pass.update \cap r.pass.exit = {}
    /\ r.pass.enter \cup r.pass.update \cup r.pass.exit = old \cup new

ClassifiedAgainst(old, h) ==
    \A r \in {update(h.t, parent, root, nodeId, h.r, h.source)} :
        Classified(old, descendants(h.t, root), h, r)

\* the first update(root), which initializeChart makes: nothing is rendered
\* before it and root.x0, root.y0 are 0
FirstPassClassified ==
    \A c \in {initializeChart(orgData)} :
        c.status = "ready" =>
            /\ c.rendering.pass.enter = descendants(c.tree, c.root)
            /\ c.rendering.pass.update = {}
            /\ c.rendering.pass.exit = {}
            /\ c.rendering.pass.enterFrom = <<0, 0>>

\* C18, as stated: every render pass classifies the nodes by id against the
\* nodes the pass before it showed: entering (new only, from the source's
\* previous position), persisting (both), exiting (old only, to the source's
\* current position, then discarded), the classes disjoint and covering the
\* old and the new visible set.
C18_ClassifiedAgainstShown ==
    /\ (status = "loading" /\ Len(orgData) > 0) => FirstPassClassified
    /\ status = "ready" => \A h \in HandlerPasses : ClassifiedAgainst(h.shown, h)

\* C18, amended: when the ids are unique, every render pass classifies the
\* nodes against the nodes that have a g.node element in the document, which
\* are those the pass before showed and those whose exit transition has not
\* ended: entering (in the layout only, from the source's previous position),
\* persisting (both), exiting (document only, to the source's current
\* position, then discarded), the classes disjoint and covering both sets.
C18_ClassifiedAgainstDocument ==
    UniqueIds =>
        /\ (status = "loading" /\ Len(orgData) > 0) => FirstPassClassified
        /\ status = "ready" => \A h \in HandlerPasses : ClassifiedAgainst(h.r.dom, h)

\* one click finds an element still exiting and makes it persisting, another
\* lets a node enter while that element exits once more
C18_Witness ==
    /\ status = "ready"
    /\ UniqueIds
    /\ \E h \in ClickPasses :
          \E r \in {update(h.t, parent, root, nodeId, h.r, h.source)} :
              r.pass.update \ Shown # {} /\ h.source # root
    /\ \E h \in ClickPasses :
          \E r \in {update(h.t, parent, root, nodeId, h.r, h.source)} :
              r.pass.enter # {} /\ r.pass.exit # {} /\ h.source # root

(* C19 *)

\* C19: every user action that changes what is shown (a click, Expand All,
\* Collapse All, a search that finds a node) runs exactly one render pass:
\* the visibility operation it calls runs none and the handler runs one
\* after it.
C19_OneRenderPerAction ==
    (status = "ready" /\ last.op \in {"click", "expandAll", "collapseAll", "search"}) =>
        updates = 1

(* C20 *)

\* update(root) run once more on the tree as it is
SecondPass == update(tree, parent, root, nodeId, rendering, root)

\* C20, as stated: a second update with no change of visibility since the
\* last one gives every shown node the position it has and classifies no
\* node as entering or exiting. (update writes no container: the tree is no
\* part of what it returns.)
C20_SecondPassNoEnterNoExit ==
    status = "ready" =>
        \A r \in {SecondPass} :
            /\ \A n \in Shown : r.x[n] = x[n] /\ r.y[n] = y[n]
            /\ r.pass.enter = {}
            /\ r.pass.exit = {}

\* C20, amended: when the ids are unique, a second update with no change of
\* visibility since the last one gives every node the position it has, lets
\* no node enter, classifies as exiting the nodes whose elements are still in
\* their exit transition and no other, and leaves the elements, the saved
\* positions and the size of the svg as they are.
C20_SecondPassIdempotent ==
    (status = "ready" /\ UniqueIds) =>
        \A r \in {SecondPass} :
            /\ r.x = x /\ r.y = y
            /\ r.x0 = x0 /\ r.y0 = y0
            /\ r.pass.enter = {}
            /\ r.pass.update = Shown
            /\ r.pass.exit = dom \ Shown
            /\ r.pass.exit = {elements[i].d : i \in {k \in 1..Len(elements) : elements[k].exiting}}
            /\ r.elements = elements
            /\ r.dom = dom
            /\ r.svg = svg

\* Collapse All has run its two passes, the second over the tree the first
\* one rendered, with elements exiting
C20_Witness ==
    /\ status = "ready"
    /\ UniqueIds
    /\ last.op = "collapseAll"
    /\ updates = 2
    /\ dom \ Shown # {}
    /\ \E n \in Shown : x[n] < 0

(* C21 *)

\* C21: expandAll(root), applied in any state, leaves no node with a child in
\* its hidden container, every node that has children Expanded, and every
\* node of the tree shown; and so it is in the state the Expand All button
\* leaves.
C21_ExpandAllShowsAll ==
    status = "ready" =>
        /\ \A t \in {expandAll(tree, root)} :
              /\ \A n \in Nodes :
                    /\ t._children[n] = << >>
                    /\ Range(t.children[n]) = OrigKids(n)
              /\ descendants(t, root) = Nodes
        /\ last.op = "expandAll" =>
              /\ \A n \in Nodes : OrigKids(n) # {} => Expanded(n)
              /\ \A n \in Nodes : _children[n] = << >>
              /\ Shown = Nodes

\* Expand All was pressed and showed a node three levels down
C21_Witness ==
    /\ status = "ready"
    /\ last.op = "expandAll"
    /\ \E n \in Shown : Cardinality(PathFromRoot(n)) > 3
    /\ \E n \in Nodes \ {root} : Cardinality(OrigKids(n)) > 0 /\ x[n] # 0

(* C22 *)

\* C22: the collapse-all action, applied in any state, the ones with a
\* collapsed root included, leaves shown the root and its direct children and
\* no other node; and so it is in the state the Collapse All button leaves.
C22_CollapseAllShowsTwoLayers ==
    status = "ready" =>
        /\ descendants(collapseToLayer2(tree, root), root) = {root} \cup OrigKids(root)
        /\ last.op = "collapseAll" => Shown = {root} \cup OrigKids(root)

\* a click has collapsed the root over a child that is still expanded
C22_Witness ==
    /\ status = "ready"
    /\ last.op = "click"
    /\ Collapsed(root)
    /\ \E c \in OrigKids(root) : Expanded(c)
    /\ \E c \in OrigKids(root) : OrigKids(c) = {}

(* C23 *)

\* tree t differs from the current one in the containers of d only, which
\* have changed places
OnlyToggled(t, d) ==
    /\ t.children[d] = _children[d]
    /\ t._children[d] = children[d]
    /\ \A n \in Nodes \ {d} : t.children[n] = children[n] /\ t._children[n] = _children[n]

\* C23: click on node d moves the children of d from one container to the
\* other and leaves the containers of every other node as they are, in every
\* state and for every d; when d has no children the nodes shown stay the
\* same; and a step that is a click leaves the counts, the parent (and with
\* it the depth) of every node and the root unchanged.
C23_ToggleOnlyItsOwnChildren ==
    /\ [](status = "ready" =>
            \A d \in Nodes :
                /\ OnlyToggled(click(tree, d), d)
                /\ OrigKids(d) = {} => descendants(click(tree, d), root) = Shown)
    /\ [][(status = "ready" /\ last'.op = "click" /\ Click(last'.node)) =>
            /\ \A n \in Nodes \ {last'.node} :
                  children'[n] = children[n] /\ _children'[n] = _children[n]
            /\ children'[last'.node] = _children[last'.node]
            /\ _children'[last'.node] = children[last'.node]
            /\ UNCHANGED <<directReports, totalDescendants, parent, root>>
            /\ \A n \in Nodes : depthOf(parent', n) = depthOf(parent, n)
            /\ OrigKids(last'.node) = {} => Shown' = Shown]_vars

\* a click has collapsed a node over a child that stays expanded
C23_Witness ==
    /\ status = "ready"
    /\ last.op = "click"
    /\ last.node # root
    /\ Collapsed(last.node)
    /\ \E c \in OrigKids(last.node) : Expanded(c)

(* C24 *)

ProperAncestors(n) == PathFromRoot(n) \ {n}

\* the nodes expandAncestors(n) makes visible when applied to tree t
Exposed(t, n) == descendants(expandAncestors(t, parent, n), root) \ descendants(t, root)

\* the proper ancestors of n that are collapsed in t
CollapsedAncestors(t, n) == {a \in ProperAncestors(n) : t._children[a] # << >>}

\* expandAncestors(n) applied to t leaves every proper ancestor of n expanded
\* and n shown, and changes the containers of no other node
AncestorsExpanded(t, n) ==
    \A u \in {expandAncestors(t, parent, n)} :
        /\ \A a \in ProperAncestors(n) : u._children[a] = << >> /\ u.children[a] # << >>
        /\ n \in descendants(u, root)
        /\ \A m \in Nodes \ ProperAncestors(n) :
              u.children[m] = t.children[m] /\ u._children[m] = t._children[m]

\* the tree on which performSearch calls expandAncestors for the node found
AfterCollapseExcept(n) == collapseAllExceptPathTo(tree, parent, root, n)

Found == {findNodeByText(tree, recs, root, q) : q \in Queries \ {<< >>}} \ {NoNode}

\* C24, as stated: expandAncestors(n), applied in any state, leaves every
\* proper ancestor of n expanded and n shown, changes the containers of no
\* other node, and makes visible only direct children of the ancestors it
\* expanded.
C24_ExposesDirectChildrenOnly ==
    status = "ready" =>
        \A n \in Nodes :
            /\ AncestorsExpanded(tree, n)
            /\ Exposed(tree, n) \subseteq UNION {OrigKids(a) : a \in CollapsedAncestors(tree, n)}

\* expandAncestors(n) applied to t leaves every node of anc, the proper
\* ancestors of n, expanded and n shown, changes the containers of no other
\* node, and makes visible only nodes beneath an ancestor that was collapsed
\* in t; with direct, only children of n and of its ancestors
ExpandsPath(t, n, anc, direct) ==
    \A u \in {expandAncestors(t, parent, n)} :
        \A shown \in {descendants(u, root)} :
            /\ \A a \in anc : u._children[a] = << >> /\ u.children[a] # << >>
            /\ n \in shown
            /\ \A m \in Nodes \ anc :
                  u.children[m] = t.children[m] /\ u._children[m] = t._children[m]
            /\ \A m \in shown \ descendants(t, root) :
                  /\ \E a \in anc : t._children[a] # << >> /\ a \in ProperAncestors(m)
                  /\ direct => ParentOf(m) \in anc \cup {n}

\* C24, amended: expandAncestors(n), applied in any state, leaves every
\* proper ancestor of n expanded and n shown and changes the containers of
\* no other node; the nodes it makes visible are beneath the ancestors it
\* expanded (their children, and what was left expanded beneath those); and
\* where performSearch calls it, after collapseAllExceptPathTo for whatever
\* node n it found, they are direct children of the nodes on the path from
\* the root to n, n included.
C24_ExposesBeneathExpandedAncestors ==
    status = "ready" =>
        \A n \in Nodes :
            \A anc \in {ProperAncestors(n)} :
                /\ ExpandsPath(tree, n, anc, FALSE)
                /\ ExpandsPath(AfterCollapseExcept(n), n, anc, TRUE)

\* a hidden node two levels down whose ancestors, once expanded, show the
\* children of an expanded node off its path; and a node the search finds
\* whose own children show with it
C24_Witness ==
    /\ status = "ready"
    /\ \E n \in Nodes \ Shown :
          /\ Cardinality(CollapsedAncestors(tree, n)) > 0
          /\ Cardinality(ProperAncestors(n)) > 1
          /\ \E m \in Nodes \ PathFromRoot(n) : Exposed(tree, n) \cap OrigKids(m) # {}
    /\ \E n \in Found : Exposed(AfterCollapseExcept(n), n) \cap OrigKids(n) # {}

(* C25 *)

\* the fetch failed, the payload was empty or the build failed
Failed == status \in {"fetchError", "emptyData", "hierarchyError"}

\* C25: once the fetch has failed, the payload has turned out empty or the
\* build has failed, there is no root, no node and no render pass was run,
\* and no click, Expand All, Collapse All or search listener is there to
\* run: no step of the program is possible, then and ever after.
C25_NoOperationWithoutRoot ==
    Failed =>
        /\ NoTree
        /\ ~ENABLED (\E d \in Nodes : Click(d))
        /\ ~ENABLED ExpandAllButton
        /\ ~ENABLED CollapseAllButton
        /\ ~ENABLED (\E q \in Queries : Search(q))
        /\ ~ENABLED ExitTransitionEnd
        /\ ~ENABLED CenterTimer
        /\ ~ENABLED NextRace

\* the fetch failed for a payload that would have built
C25_Witness ==
    /\ status = "fetchError"
    /\ last.op = "fetchFail"
    /\ orgData = DeepPayload
    /\ NoTree


\* C26: whenever the deferred centring of a successful search fires, the
\* matched node is shown and the target handed to the viewport is the place
\* where the current layout draws the match, also when clicks, Expand All,
\* Collapse All or another search were handled between the search and the
\* firing of its timer
C26_CentringHitsShownMatch ==
    timers # << >> =>
        \A c \in {centerOnNode(tree, parent, root, x, y, Head(timers))} :
            /\ Head(timers) \in Shown
            /\ c.pixelX = svg.verticalShift + treeLayout(children, parent, root)[Head(timers)]
            /\ c.pixelY2 = svg.horizontalOffset2
                             + 2 * depthOf(parent, Head(timers)) * (NODE_WIDTH + HORIZONTAL_NODE_GAP)

\* the firing of a centring timer rewrites no coordinate: every handler has
\* laid the shown tree out already
C26_CentringMovesNothing ==
    timers # << >> =>
        \A c \in {centerOnNode(tree, parent, root, x, y, Head(timers))} :
            c.x = x /\ c.y = y

\* between a search and its timer the match was hidden, and the timer is
\* about to centre on a place where the current layout draws another node
C26_CentresOnHiddenMatch ==
    /\ timers # << >>
    /\ Head(timers) \notin Shown
    /\ \A c \in {centerOnNode(tree, parent, root, x, y, Head(timers))} :
          \E m \in Shown :
              /\ c.pixelX = svg.verticalShift + x[m]
              /\ c.pixelY2 # svg.horizontalOffset2 + 2 * y[m]

=============================================================================
